---- MODULE Spec2Model ----
(***************************************************************************)
(* JsonHandler (src/json_handler.py): read and write of JSON documents     *)
(* with path containment, schema validation, backup before overwrite and   *)
(* write-to-temp-then-rename.                                               *)
(*                                                                         *)
(* A path is a sequence of components, a component a sequence of strings   *)
(* (stem, suffixes), so that with_suffix and the mkstemp prefix/suffix are *)
(* computed and not looked up.  A file's content is the sequence of tokens *)
(* json.dump writes.  An optional value (None or a value) is a set with at *)
(* most one element.                                                       *)
(***************************************************************************)
EXTENDS Integers, Sequences, FiniteSets, TLC

\* ------------------------------------------------------------------ bounds
\* calls started in one behaviour
MaxCalls == 2
\* failures of the operating system (disk, permissions) injected in one behaviour
MaxFaults == 1
\* random names mkstemp can draw for one target
NumTmpNames == 2

Procs == {1, 2}
None == {}
Some(v) == {v}
The(o) == CHOOSE v \in o : TRUE

\* ------------------------------------------------------------------ values
VStr(s) == [t |-> "str", s |-> s, n |-> 0]
VNum(n) == [t |-> "num", s |-> "", n |-> n]
\* a Python set: a value json.dump cannot serialize (TypeError)
VSet == [t |-> "set", s |-> "", n |-> 0]
Pair(k, v) == [k |-> k, v |-> v]

\* test_json_handler: valid_data, invalid_data
valid_data == << Pair("name", VStr("John")), Pair("age", VNum(30)) >>
invalid_data == << Pair("age", VStr("invalid")) >>
unserializable_data == << Pair("name", VStr("Ann")), Pair("tags", VSet) >>
Datas == {valid_data, invalid_data, unserializable_data}

\* ------------------------------------------------------------------ schema
\* the schema of test_json_handler: properties name:string, age:number; required name
person_schema == [required |-> {"name"}, props |-> [name |-> "string", age |-> "number"]]
\* a second schema, used as a per-call argument: required email (a string)
email_schema == [required |-> {"email"}, props |-> [email |-> "string"]]

Keys(data) == {data[i].k : i \in 1..Len(data)}

TypeOk(v, ty) ==
    \/ ty = "string" /\ v.t = "str"
    \/ ty = "number" /\ v.t = "num"

\* jsonschema.validate(instance, schema): TRUE iff no ValidationError
validate(instance, sch) ==
    /\ sch.required \subseteq Keys(instance)
    /\ \A i \in 1..Len(instance) :
          instance[i].k \in DOMAIN sch.props => TypeOk(instance[i].v, sch.props[instance[i].k])

\* ------------------------------------------------------------------ json
Tok(t) == [t |-> t, s |-> "", n |-> 0]
KeyTok(k) == [t |-> "key", s |-> k, n |-> 0]

\* json.dump(data, f): the tokens written to f and whether the encoder finished;
\* the encoder writes chunk by chunk, so what precedes an unserializable value is
\* already in the file when TypeError is raised.
RECURSIVE dump_members(_, _, _)
dump_members(data, i, out) ==
    IF i > Len(data) THEN [out |-> Append(out, Tok("}")), ok |-> TRUE]
    ELSE LET sep == IF i = 1 THEN out ELSE Append(out, Tok(","))
             withKey == Append(sep, KeyTok(data[i].k))
         IN IF data[i].v.t \in {"str", "num"}
            THEN dump_members(data, i + 1, Append(withKey, data[i].v))
            ELSE [out |-> withKey, ok |-> FALSE]

json_dump(data) == dump_members(data, 1, << Tok("{") >>)

\* json.load(f): the mapping read, ok = FALSE for a JSONDecodeError
RECURSIVE load_members(_, _, _)
load_members(toks, i, acc) ==
    IF i + 2 > Len(toks) THEN [ok |-> FALSE, data |-> << >>]
    ELSE IF toks[i].t # "key" \/ toks[i + 1].t \notin {"str", "num"}
    THEN [ok |-> FALSE, data |-> << >>]
    ELSE LET acc2 == Append(acc, Pair(toks[i].s, toks[i + 1]))
         IN IF toks[i + 2].t = "}"
            THEN [ok |-> i + 2 = Len(toks), data |-> IF i + 2 = Len(toks) THEN acc2 ELSE << >>]
            ELSE IF toks[i + 2].t = ","
            THEN load_members(toks, i + 3, acc2)
            ELSE [ok |-> FALSE, data |-> << >>]

json_load(toks) ==
    IF Len(toks) < 2 \/ toks[1].t # "{" THEN [ok |-> FALSE, data |-> << >>]
    ELSE IF toks[2].t = "}" THEN [ok |-> Len(toks) = 2, data |-> << >>]
    ELSE load_members(toks, 2, << >>)

\* ------------------------------------------------------------------ paths
Name(stem, suffix) == << stem, suffix >>
DotDot == << ".." >>
base_dir == << << "base" >> >>
TestJson == Name("test", ".json")

\* Path.resolve(): ".." collapsed against the components before it
RECURSIVE resolve_from(_, _, _)
resolve_from(p, i, acc) ==
    IF i > Len(p) THEN acc
    ELSE IF p[i] = DotDot
    THEN resolve_from(p, i + 1, IF Len(acc) = 0 THEN acc ELSE SubSeq(acc, 1, Len(acc) - 1))
    ELSE resolve_from(p, i + 1, Append(acc, p[i]))

resolve(p) == resolve_from(p, 1, << >>)

is_relative_to(p, base) == Len(base) <= Len(p) /\ SubSeq(p, 1, Len(base)) = base

parent(p) == SubSeq(p, 1, Len(p) - 1)
name(p) == p[Len(p)]

\* path.with_suffix(f"{path.suffix}.bak"): the last suffix replaced by itself + ".bak"
with_bak_suffix(p) == Append(parent(p), Append(name(p), ".bak"))

\* tempfile.mkstemp(dir=path.parent, prefix=f".{path.name}.", suffix=".tmp") with
\* the random part r
temp_name(p, r) == Append(parent(p), << "." >> \o name(p) \o << ".", r, ".tmp" >>)
RandStr == << "r1", "r2", "r3", "r4" >>
TmpRands == {RandStr[i] : i \in 1..NumTmpNames}

\* the paths the calls are given (as written by the caller, not resolved)
P_test == base_dir \o << << "sub" >>, TestJson >>
P_outside == base_dir \o << DotDot, << "out" >>, Name("outside", ".json") >>
P_dir == base_dir \o << << "d" >> >>
Paths == {P_test, P_outside, P_dir}

old_data == << Pair("name", VStr("Old")) >>

\* ------------------------------------------------------------------ state
VARIABLES
    base_path, schema, max_size_bytes,
    files, dirs,
    pc, args, backup_path, temp_path, buf, exc, ret, result,
    fs0, faults, serr, nfaults, ncalls, lastw, rn, leaked

config == << base_path, schema, max_size_bytes >>
fs == << files, dirs >>
locals == << backup_path, temp_path, buf, exc, ret >>
hist == << fs0, faults, serr, nfaults, ncalls, lastw, rn, leaked >>
vars == << config, fs, pc, args, locals, result, hist >>

\* ------------------------------------------------------------------ helpers
Set(f, p, v) == [f EXCEPT ![p] = v]
Put(f, k, v) == [x \in (DOMAIN f) \cup {k} |-> IF x = k THEN v ELSE f[x]]
Del(f, k) == [x \in (DOMAIN f) \ {k} |-> f[x]]
EmptyFiles == [x \in {} |-> << >>]
Max(S) == CHOOSE m \in S : \A x \in S : x <= m

\* Path.exists(), Path.is_file() on the filesystem (files, dirs)
exists(p) == resolve(p) \in (DOMAIN files) \cup dirs
is_file(p) == resolve(p) \in DOMAIN files

Ancestors(q) == {SubSeq(q, 1, k) : k \in 0..Len(q)}

\* what an interrupted write leaves of content c: a strict prefix
Partials(c) == {SubSeq(c, 1, k) : k \in 0..(IF Len(c) = 0 THEN 0 ELSE Len(c) - 1)}

\* JsonOperationResult(data, success, error_message, file_path); error_message is
\* << prefix, detail >>, or << >> for None
Res(d, ok, msg, fp) == [data |-> d, success |-> ok, error_message |-> msg, file_path |-> fp]
Msg(prefix, detail) == << prefix, detail >>
NoMsg == << >>

NoArgs ==
    [op |-> "none", data |-> << >>, path |-> << >>, backup |-> FALSE, atomic |-> FALSE,
     schema |-> None, use_streaming |-> FALSE]

\* an injected failure of the operating system at `step` of p's call
Fault(p, step) ==
    /\ nfaults < MaxFaults
    /\ nfaults' = nfaults + 1
    /\ faults' = Set(faults, p, faults[p] \cup {step})
NoFault == UNCHANGED << nfaults, faults >>

\* _validate_path comparing the path as written, without resolve()
_validate_path_unresolved(path) ==
    IF base_path # None /\ ~is_relative_to(path, The(base_path))
    THEN Some(Msg("Access denied: File outside base path", ""))
    ELSE None

\* JsonHandler._validate_path: the error message, or None
_validate_path(path) ==
    IF base_path # None /\ ~is_relative_to(resolve(path), The(base_path))
    THEN Some(Msg("Access denied: File outside base path", ""))
    ELSE None

\* _validate_schema that never reports a violation
_validate_schema_skipped(data) == None

\* JsonHandler._validate_schema: the error message, or None; only self.schema is
\* consulted
_validate_schema(data) ==
    IF schema # None
    THEN IF validate(data, The(schema))
         THEN None
         ELSE Some(Msg("Schema validation error", "ValidationError"))
    ELSE None

\* ------------------------------------------------------------------ Init
\* JsonHandler.__init__(base_path, schema, max_size_bytes): the handlers
\* constructed; max_size_bytes counts tokens
Handlers ==
    { [base_path |-> Some(resolve(base_dir)), schema |-> Some(person_schema), max_size_bytes |-> 8],
      [base_path |-> Some(resolve(base_dir)), schema |-> None, max_size_bytes |-> 5],
      [base_path |-> None, schema |-> Some(person_schema), max_size_bytes |-> 5],
      [base_path |-> None, schema |-> None, max_size_bytes |-> 8] }

\* the filesystems the calls start from: base/ and base/d/ exist; base/sub/test.json
\* exists (with its directory) or not
InitialFs ==
    { [files |-> EmptyFiles, dirs |-> {<< >>, base_dir, P_dir}],
      [files |-> Put(EmptyFiles, resolve(P_test), json_dump(old_data).out),
       dirs |-> {<< >>, base_dir, P_dir, parent(P_test)}] }

InitState ==
    /\ \E h \in Handlers :
          /\ base_path = h.base_path
          /\ schema = h.schema
          /\ max_size_bytes = h.max_size_bytes
    /\ \E f \in InitialFs : files = f.files /\ dirs = f.dirs
    /\ pc = [p \in Procs |-> "idle"]
    /\ args = [p \in Procs |-> NoArgs]
    /\ backup_path = [p \in Procs |-> None]
    /\ temp_path = [p \in Procs |-> None]
    /\ buf = [p \in Procs |-> << >>]
    /\ exc = [p \in Procs |-> ""]
    /\ ret = [p \in Procs |-> None]
    /\ result = [p \in Procs |-> None]
    /\ fs0 = [p \in Procs |-> [files |-> EmptyFiles, dirs |-> {}]]
    /\ faults = [p \in Procs |-> {}]
    /\ serr = [p \in Procs |-> FALSE]
    /\ ncalls = 0
    /\ lastw = None
    /\ rn = [p \in Procs |-> 0]
    /\ leaked = {}

Init == InitState /\ nfaults = 0

\* the call's frame: locals cleared, the history of the call started
Begin(p, a, first) ==
    /\ pc[p] \in {"idle", "done"}
    /\ ncalls < MaxCalls
    /\ ncalls' = ncalls + 1
    /\ args' = Set(args, p, a)
    /\ pc' = Set(pc, p, first)
    /\ result' = Set(result, p, None)
    /\ fs0' = Set(fs0, p, [files |-> files, dirs |-> dirs])
    /\ faults' = Set(faults, p, {})
    /\ serr' = Set(serr, p, FALSE)
    /\ rn' = Set(rn, p, 0)
    /\ UNCHANGED << config, fs, locals, nfaults, leaked >>

\* return r to the caller: the frame's locals die
Return(p, r) ==
    /\ result' = Set(result, p, Some(r))
    /\ pc' = Set(pc, p, "done")
    /\ backup_path' = Set(backup_path, p, None)
    /\ temp_path' = Set(temp_path, p, None)
    /\ buf' = Set(buf, p, << >>)
    /\ exc' = Set(exc, p, "")
    /\ ret' = Set(ret, p, None)

\* handler_of without the outer try: only the inner try/except/finally is left
handler_of_inner_only(l) ==
    CASE l \in {"w_mkstemp", "w_temp_dump", "w_replace", "w_direct_open", "w_direct_dump"}
            -> "w_except"
      [] l \in {"w_except", "w_restore_fill"} -> "w_finally"
      [] l = "r_body" -> "r_except"
      [] OTHER -> "raised"

\* where an exception raised at step l is caught: the inner try (lines 201-225)
\* has the except clause of line 227; an exception of that clause, as its
\* re-raise, passes through the finally clause (line 234) to the except clause
\* of the outer try (line 245); read has one try (line 148)
handler_of(l) ==
    CASE l \in {"w_mkstemp", "w_temp_dump", "w_replace", "w_direct_open", "w_direct_dump"}
            -> "w_except"
      [] l \in {"w_except", "w_restore_fill"} -> "w_finally"
      [] l \in {"w_path", "w_schema", "w_mkdir", "w_backup", "w_backup_fill", "w_finally"}
            -> "w_outer_except"
      [] l = "r_body" -> "r_except"
      [] OTHER -> "raised"

\* raise e: control passes to the enclosing handler
Raise(p, e) ==
    /\ exc' = Set(exc, p, e)
    /\ pc' = Set(pc, p, handler_of(pc[p]))

Goto(p, l) == pc' = Set(pc, p, l)

\* ------------------------------------------------------------------ write
\* write(data, file_path, backup, atomic, schema); indent and ensure_ascii only
\* change the layout of the text written
StartWrite(p) ==
    \E data \in Datas, path \in Paths, backup \in BOOLEAN, atomic \in BOOLEAN,
       sch \in {None, Some(email_schema)} :
        /\ Begin(p, [op |-> "write", data |-> data, path |-> path, backup |-> backup,
                     atomic |-> atomic, schema |-> sch, use_streaming |-> FALSE], "w_path")
        /\ lastw' = None

\* lines 181-184
WValidatePath(p) ==
    /\ pc[p] = "w_path"
    /\ \/ /\ NoFault
          /\ LET err == _validate_path(args[p].path)
             IN IF err # None
                THEN Return(p, Res(None, FALSE, The(err), None))
                ELSE Goto(p, "w_schema") /\ UNCHANGED << locals, result >>
       \/ /\ Fault(p, "resolve")
          /\ Return(p, Res(None, FALSE, Msg("Path validation error", "OSError"), None))
    /\ UNCHANGED << config, fs, args, fs0, serr, ncalls, lastw, rn, leaked >>

\* lines 186-189
WValidateSchema(p) ==
    /\ pc[p] = "w_schema"
    /\ LET err == _validate_schema(args[p].data)
       IN IF err # None
          THEN Return(p, Res(None, FALSE, The(err), None))
          ELSE Goto(p, "w_mkdir") /\ UNCHANGED << locals, result >>
    /\ UNCHANGED << config, fs, args, hist >>

\* line 192: path.parent.mkdir(parents=True, exist_ok=True)
WMkdir(p) ==
    /\ pc[p] = "w_mkdir"
    /\ LET anc == Ancestors(resolve(parent(args[p].path)))
       IN \/ /\ NoFault
             /\ IF anc \cap DOMAIN files # {}
                THEN Raise(p, "NotADirectoryError") /\ UNCHANGED dirs
                ELSE Goto(p, "w_backup") /\ dirs' = dirs \cup anc /\ UNCHANGED exc
          \/ /\ Fault(p, "mkdir")
             /\ Raise(p, "OSError")
             /\ UNCHANGED dirs
    /\ UNCHANGED << config, files, args, backup_path, temp_path, buf, ret, result,
                    fs0, serr, ncalls, lastw, rn, leaked >>

AfterBackup(p) == IF args[p].atomic THEN "w_mkstemp" ELSE "w_direct_open"

\* lines 195-198: shutil.copy2 opens the source, then creates/truncates the
\* destination; the source is read as it was when opened
WBackup(p) ==
    /\ pc[p] = "w_backup"
    /\ LET path == args[p].path
           bp == with_bak_suffix(path)
       IN IF args[p].backup /\ exists(path)
          THEN /\ backup_path' = Set(backup_path, p, Some(bp))
               /\ \/ /\ NoFault
                     /\ IF resolve(path) \in dirs \/ resolve(bp) \in dirs
                        THEN /\ Raise(p, "IsADirectoryError")
                             /\ UNCHANGED << files, buf >>
                        ELSE /\ buf' = Set(buf, p, files[resolve(path)])
                             /\ files' = Put(files, resolve(bp), << >>)
                             /\ Goto(p, "w_backup_fill")
                             /\ UNCHANGED exc
                  \/ /\ Fault(p, "backup_open")
                     /\ Raise(p, "OSError")
                     /\ UNCHANGED << files, buf >>
          ELSE /\ NoFault
               /\ Goto(p, AfterBackup(p))
               /\ UNCHANGED << files, backup_path, buf, exc >>
    /\ UNCHANGED << config, dirs, args, temp_path, ret, result,
                    fs0, serr, ncalls, lastw, rn, leaked >>

\* line 198, the copy itself
WBackupFill(p) ==
    /\ pc[p] = "w_backup_fill"
    /\ LET rbp == resolve(The(backup_path[p]))
       IN \/ /\ NoFault
             /\ files' = Put(files, rbp, buf[p])
             /\ Goto(p, AfterBackup(p))
             /\ UNCHANGED exc
          \/ /\ Fault(p, "backup_copy")
             /\ \E c \in Partials(buf[p]) : files' = Put(files, rbp, c)
             /\ Raise(p, "OSError")
    /\ buf' = Set(buf, p, << >>)
    /\ UNCHANGED << config, dirs, args, backup_path, temp_path, ret, result,
                    fs0, serr, ncalls, lastw, rn, leaked >>

\* lines 205-210: mkstemp creates an empty file under a random name no file has;
\* the names drawn for two calls in progress differ
WMkstemp(p) ==
    /\ pc[p] = "w_mkstemp"
    /\ LET path == args[p].path
           held == UNION {temp_path[q] : q \in Procs}
           free == {r \in TmpRands : /\ resolve(temp_name(path, r)) \notin DOMAIN files
                                     /\ temp_name(path, r) \notin held}
       IN \/ /\ NoFault
             /\ IF free = {}
                THEN /\ Raise(p, "FileExistsError")
                     /\ UNCHANGED << files, temp_path >>
                ELSE \E r \in free :
                        /\ temp_path' = Set(temp_path, p, Some(temp_name(path, r)))
                        /\ files' = Put(files, resolve(temp_name(path, r)), << >>)
                        /\ Goto(p, "w_temp_dump")
                        /\ UNCHANGED exc
          \/ /\ Fault(p, "mkstemp")
             /\ Raise(p, "OSError")
             /\ UNCHANGED << files, temp_path >>
    /\ UNCHANGED << config, dirs, args, backup_path, buf, ret, result,
                    fs0, serr, ncalls, lastw, rn, leaked >>

\* json.dump into the file at resolved path f (lines 214-215, 221-222)
DumpInto(p, f, next_pc, on_success) ==
    LET d == json_dump(args[p].data)
    IN \/ /\ NoFault
          /\ files' = Put(files, f, d.out)
          /\ IF d.ok
             THEN Goto(p, next_pc) /\ on_success /\ UNCHANGED << exc, serr >>
             ELSE /\ Raise(p, "TypeError")
                  /\ serr' = Set(serr, p, TRUE)
                  /\ UNCHANGED ret
       \/ /\ Fault(p, "write")
          /\ \E c \in Partials(d.out) : files' = Put(files, f, c)
          /\ Raise(p, "OSError")
          /\ UNCHANGED << ret, serr >>

\* lines 213-215
WTempDump(p) ==
    /\ pc[p] = "w_temp_dump"
    /\ DumpInto(p, resolve(The(temp_path[p])), "w_replace", UNCHANGED ret)
    /\ UNCHANGED << config, dirs, args, backup_path, temp_path, buf, result,
                    fs0, ncalls, lastw, rn, leaked >>

Success(p) == Res(Some(args[p].data), TRUE, NoMsg, Some(args[p].path))

\* WReplace that returns success without renaming the temporary file
WReplace_NoRename(p) ==
    /\ pc[p] = "w_replace"
    /\ NoFault
    /\ ret' = Set(ret, p, Some(Success(p)))
    /\ Goto(p, "w_finally")
    /\ UNCHANGED << config, fs, args, backup_path, temp_path, buf, exc, result,
                    fs0, serr, ncalls, lastw, rn, leaked >>

\* line 218: temp_path.replace(path), then the return of line 225 (pending the
\* finally clause)
WReplace(p) ==
    /\ pc[p] = "w_replace"
    /\ LET rp == resolve(args[p].path)
           t == resolve(The(temp_path[p]))
       IN \/ /\ NoFault
             /\ IF rp \in dirs
                THEN /\ Raise(p, "IsADirectoryError")
                     /\ UNCHANGED << files, ret, rn >>
                ELSE /\ files' = Put(Del(files, t), rp, files[t])
                     /\ rn' = Set(rn, p, 1 + Max({rn[q] : q \in Procs}))
                     /\ ret' = Set(ret, p, Some(Success(p)))
                     /\ Goto(p, "w_finally")
                     /\ UNCHANGED exc
          \/ /\ Fault(p, "rename")
             /\ Raise(p, "OSError")
             /\ UNCHANGED << files, ret, rn >>
    /\ UNCHANGED << config, dirs, args, backup_path, temp_path, buf, result,
                    fs0, serr, ncalls, lastw, leaked >>

\* line 221: path.open('w') creates or truncates the target
WDirectOpen(p) ==
    /\ pc[p] = "w_direct_open"
    /\ LET rp == resolve(args[p].path)
       IN \/ /\ NoFault
             /\ IF rp \in dirs
                THEN Raise(p, "IsADirectoryError") /\ UNCHANGED files
                ELSE Goto(p, "w_direct_dump") /\ files' = Put(files, rp, << >>)
                     /\ UNCHANGED exc
          \/ /\ Fault(p, "open")
             /\ Raise(p, "OSError")
             /\ UNCHANGED files
    /\ UNCHANGED << config, dirs, args, backup_path, temp_path, buf, ret, result,
                    fs0, serr, ncalls, lastw, rn, leaked >>

\* line 222, then the return of line 225
WDirectDump(p) ==
    /\ pc[p] = "w_direct_dump"
    /\ DumpInto(p, resolve(args[p].path), "w_finally", ret' = Set(ret, p, Some(Success(p))))
    /\ UNCHANGED << config, dirs, args, backup_path, temp_path, buf, result,
                    fs0, ncalls, lastw, rn, leaked >>

\* WExcept that re-raises without restoring the backup
WExcept_NoRestore(p) ==
    /\ pc[p] = "w_except"
    /\ NoFault
    /\ Goto(p, handler_of("w_except"))
    /\ UNCHANGED << config, fs, args, locals, result,
                    fs0, serr, ncalls, lastw, rn, leaked >>

\* lines 227-232: restore the backup over the target, then re-raise
WExcept(p) ==
    /\ pc[p] = "w_except"
    /\ LET rp == resolve(args[p].path)
       IN IF args[p].backup /\ backup_path[p] # None /\ exists(The(backup_path[p]))
          THEN \/ /\ NoFault
                  /\ buf' = Set(buf, p, files[resolve(The(backup_path[p]))])
                  /\ files' = Put(files, rp, << >>)
                  /\ Goto(p, "w_restore_fill")
                  /\ UNCHANGED exc
               \/ /\ Fault(p, "restore_open")
                  /\ Raise(p, "OSError")
                  /\ UNCHANGED << files, buf >>
          ELSE /\ NoFault
               /\ Goto(p, handler_of("w_except"))
               /\ UNCHANGED << files, buf, exc >>
    /\ UNCHANGED << config, dirs, args, backup_path, temp_path, ret, result,
                    fs0, serr, ncalls, lastw, rn, leaked >>

\* line 230, the copy itself, and line 232
WRestoreFill(p) ==
    /\ pc[p] = "w_restore_fill"
    /\ LET rp == resolve(args[p].path)
       IN \/ /\ NoFault
             /\ files' = Put(files, rp, buf[p])
             /\ Goto(p, handler_of("w_restore_fill"))
             /\ UNCHANGED exc
          \/ /\ Fault(p, "restore_copy")
             /\ \E c \in Partials(buf[p]) : files' = Put(files, rp, c)
             /\ Raise(p, "OSError")
    /\ buf' = Set(buf, p, << >>)
    /\ UNCHANGED << config, dirs, args, backup_path, temp_path, ret, result,
                    fs0, serr, ncalls, lastw, rn, leaked >>

\* WFinally that deletes the temporary file only when no exception is pending
WFinally_CleanupOnSuccess(p) ==
    /\ pc[p] = "w_finally"
    /\ NoFault
    /\ LET has == args[p].atomic /\ temp_path[p] # None /\ exists(The(temp_path[p]))
       IN files' = IF has /\ exc[p] = "" THEN Del(files, resolve(The(temp_path[p]))) ELSE files
    /\ IF exc[p] # ""
       THEN /\ Goto(p, handler_of("w_finally"))
            /\ UNCHANGED << locals, result, lastw >>
       ELSE /\ Return(p, The(ret[p]))
            /\ lastw' = Some([path |-> args[p].path, data |-> args[p].data])
    /\ UNCHANGED << config, dirs, args, fs0, serr, ncalls, rn, leaked >>

\* lines 234-243: the finally clause, then the pending return or the pending
\* exception
WFinally(p) ==
    /\ pc[p] = "w_finally"
    /\ LET has == args[p].atomic /\ temp_path[p] # None /\ exists(The(temp_path[p]))
       IN \/ /\ NoFault
             /\ files' = IF has THEN Del(files, resolve(The(temp_path[p]))) ELSE files
             /\ UNCHANGED leaked
          \/ /\ has
             /\ Fault(p, "unlink")
             /\ leaked' = leaked \cup {resolve(The(temp_path[p]))}
             /\ UNCHANGED files
    /\ IF exc[p] # ""
       THEN /\ Goto(p, handler_of("w_finally"))
            /\ UNCHANGED << locals, result, lastw >>
       ELSE /\ Return(p, The(ret[p]))
            /\ lastw' = Some([path |-> args[p].path, data |-> args[p].data])
    /\ UNCHANGED << config, dirs, args, fs0, serr, ncalls, rn >>

\* lines 245-248
WOuterExcept(p) ==
    /\ pc[p] = "w_outer_except"
    /\ Return(p, Res(None, FALSE, Msg("Error writing JSON", exc[p]), None))
    /\ UNCHANGED << config, fs, args, hist >>

\* ------------------------------------------------------------------ read
StartRead(p) ==
    \E path \in Paths, use_streaming \in BOOLEAN, sch \in {None, Some(email_schema)} :
        /\ Begin(p, [op |-> "read", data |-> << >>, path |-> path, backup |-> FALSE,
                     atomic |-> FALSE, schema |-> sch, use_streaming |-> use_streaming],
                 "r_body")
        /\ UNCHANGED lastw

\* dict(ijson.kvitems(file, '')): the top-level members, key by key
kvitems(toks) == json_load(toks)

\* lines 111-146: the checks and the parse; they change nothing
ReadOutcome(p) ==
    LET path == args[p].path
        fail(msg) == [raise |-> "", res |-> Res(None, FALSE, msg, Some(path))]
        perr == _validate_path(path)
    IN IF perr # None THEN fail(The(perr))
       ELSE IF ~exists(path) THEN fail(Msg("File not found", ""))
       ELSE IF ~is_file(path) THEN fail(Msg("Not a file", ""))
       ELSE IF Len(files[resolve(path)]) > max_size_bytes THEN fail(Msg("File too large", ""))
       ELSE LET parsed == IF args[p].use_streaming
                          THEN kvitems(files[resolve(path)])
                          ELSE json_load(files[resolve(path)])
            IN IF ~parsed.ok THEN [raise |-> "JSONDecodeError", res |-> Res(None, FALSE, NoMsg, None)]
               ELSE LET serr_ == _validate_schema(parsed.data)
                    IN IF serr_ # None THEN fail(The(serr_))
                       ELSE [raise |-> "", res |-> Res(Some(parsed.data), TRUE, NoMsg, Some(path))]

ReadBody(p) ==
    /\ pc[p] = "r_body"
    /\ \/ /\ NoFault
          /\ LET o == ReadOutcome(p)
             IN IF o.raise # ""
                THEN Raise(p, o.raise)
                     /\ UNCHANGED << backup_path, temp_path, buf, ret, result >>
                ELSE Return(p, o.res)
       \/ /\ Fault(p, "resolve")
          /\ Return(p, Res(None, FALSE, Msg("Path validation error", "OSError"), Some(args[p].path)))
       \/ /\ Fault(p, "read_io")
          /\ _validate_path(args[p].path) = None
          /\ Raise(p, "OSError")
          /\ UNCHANGED << backup_path, temp_path, buf, ret, result >>
    /\ UNCHANGED << config, fs, args, fs0, serr, ncalls, lastw, rn, leaked >>

\* lines 148-151
ReadExcept(p) ==
    /\ pc[p] = "r_except"
    /\ Return(p, Res(None, FALSE, Msg("Error reading JSON", exc[p]), Some(args[p].path)))
    /\ UNCHANGED << config, fs, args, hist >>

\* ------------------------------------------------------------------ specs
Step(p) ==
    \/ WValidatePath(p) \/ WValidateSchema(p) \/ WMkdir(p)
    \/ WBackup(p) \/ WBackupFill(p)
    \/ WMkstemp(p) \/ WTempDump(p) \/ WReplace(p)
    \/ WDirectOpen(p) \/ WDirectDump(p)
    \/ WExcept(p) \/ WRestoreFill(p) \/ WFinally(p) \/ WOuterExcept(p)
    \/ ReadBody(p) \/ ReadExcept(p)

\* one caller: a call starts when the one before it has returned
Next == \E p \in {1} : StartWrite(p) \/ StartRead(p) \/ Step(p)

Spec == Init /\ [][Next]_vars

\* two callers, each in write(data, P_test, atomic=True), their steps interleaved
ConcStartWrite(p) ==
    \E data \in Datas, backup \in BOOLEAN :
        /\ Begin(p, [op |-> "write", data |-> data, path |-> P_test, backup |-> backup,
                     atomic |-> TRUE, schema |-> None, use_streaming |-> FALSE], "w_path")
        /\ lastw' = None

NextConc ==
    \E p \in Procs :
        \/ ConcStartWrite(p)
        \/ WValidatePath(p) \/ WValidateSchema(p) \/ WMkdir(p)
        \/ WBackup(p) \/ WBackupFill(p)
        \/ WMkstemp(p) \/ WTempDump(p) \/ WReplace(p)
        \/ WExcept(p) \/ WRestoreFill(p) \/ WFinally(p) \/ WOuterExcept(p)

\* the interleavings are explored on a filesystem whose operations do not fail
InitConc == InitState /\ nfaults = MaxFaults

SpecConc == InitConc /\ [][NextConc]_vars

\* ------------------------------------------------------------------ properties
\* what the formulas below read off a state
InBase(path) == base_path = None \/ is_relative_to(resolve(path), The(base_path))
TargetState(f, path) == IF resolve(path) \in DOMAIN f THEN Some(f[resolve(path)]) ELSE None
\* the target before the call of p, and now
Pre(p) == TargetState(fs0[p].files, args[p].path)
Cur(p) == TargetState(files, args[p].path)
Done(p, op) == pc[p] = "done" /\ args[p].op = op
R(p) == The(result[p])
FsUntouched(p) == files = fs0[p].files /\ dirs = fs0[p].dirs
SatisfiesStore(data) == schema = None \/ validate(data, The(schema))
\* the complete new content, when the data can be serialized
NewComplete(p) == IF json_dump(args[p].data).ok THEN {Some(json_dump(args[p].data).out)} ELSE {}
IsTemp(f) == Len(f) > 0 /\ name(f)[1] = "." /\ name(f)[Len(name(f))] = ".tmp"
TempFiles == {f \in DOMAIN files : IsTemp(f)}

\* a call none of whose filesystem operations failed, on a path that names a file
\* (not an existing directory)
Undisturbed(p) == faults[p] = {} /\ resolve(args[p].path) \notin fs0[p].dirs

\* C1 (as claimed): for every serializable d satisfying the store's schema and every
\* path inside base_path, write(d, p) succeeds with data = d and a following
\* read(p) succeeds with data = d
C1_RoundTripAsClaimed ==
    \A p \in Procs :
        /\ (Done(p, "write") /\ InBase(args[p].path) /\ SatisfiesStore(args[p].data)
                /\ json_dump(args[p].data).ok /\ Undisturbed(p))
              => (R(p).success /\ R(p).data = Some(args[p].data))
        /\ (Done(p, "read") /\ lastw # None /\ faults[p] = {}
                /\ ~args[p].use_streaming /\ args[p].schema = None)
              => (The(lastw).path = args[p].path
                    => (R(p).success /\ R(p).data = Some(The(lastw).data)))

\* C1 (amended): the same, the read succeeding when the serialized document is
\* of at most max_size_bytes
C1_RoundTrip ==
    \A p \in Procs :
        /\ (Done(p, "write") /\ InBase(args[p].path) /\ SatisfiesStore(args[p].data)
                /\ json_dump(args[p].data).ok /\ Undisturbed(p))
              => (R(p).success /\ R(p).data = Some(args[p].data))
        /\ (Done(p, "read") /\ lastw # None /\ faults[p] = {}
                /\ ~args[p].use_streaming /\ args[p].schema = None)
              => ((The(lastw).path = args[p].path
                      /\ Len(json_dump(The(lastw).data).out) <= max_size_bytes)
                    => (R(p).success /\ R(p).data = Some(The(lastw).data)))

C1_Witness ==
    \E p \in Procs :
        /\ Done(p, "read") /\ faults[p] = {}
        /\ lastw = Some([path |-> args[p].path, data |-> valid_data])
        /\ Pre(p) = Some(json_dump(valid_data).out)
        /\ R(p).success /\ R(p).data = Some(valid_data)

\* C2: with a base path, a call on a path that resolves outside it changes nothing
\* on the filesystem, at any step, and returns the access-denied failure
Outside(path) == base_path # None /\ ~is_relative_to(resolve(path), The(base_path))

C2_Containment ==
    \A p \in Procs :
        (args[p].op \in {"read", "write"} /\ Outside(args[p].path) /\ "resolve" \notin faults[p])
          => /\ FsUntouched(p)
             /\ pc[p] = "done"
                  => /\ ~R(p).success
                     /\ R(p).data = None
                     /\ R(p).error_message = Msg("Access denied: File outside base path", "")

C2_Witness ==
    \E p \in Procs :
        /\ Done(p, "write") /\ Outside(args[p].path)
        /\ args[p].path = P_outside /\ is_relative_to(args[p].path, The(base_path))
        /\ ~R(p).success

\* C3: a write of data that violates the store's schema changes nothing on the
\* filesystem, at any step, and fails; with the schema-violation error when the
\* path passed the containment check
C3_SchemaEnforcement ==
    \A p \in Procs :
        (args[p].op = "write" /\ ~SatisfiesStore(args[p].data))
          => /\ FsUntouched(p)
             /\ pc[p] = "done"
                  => /\ ~R(p).success
                     /\ (InBase(args[p].path) /\ "resolve" \notin faults[p])
                          => R(p).error_message = Msg("Schema validation error", "ValidationError")

C3_Witness ==
    \E p \in Procs :
        /\ Done(p, "write") /\ ~SatisfiesStore(args[p].data) /\ InBase(args[p].path)
        /\ args[p].path = P_test /\ resolve(parent(P_test)) \notin dirs
        /\ R(p).error_message = Msg("Schema validation error", "ValidationError")

\* C4: over an existing file, a write with backup=True whose serialization raises
\* (and nothing else fails) returns failure and leaves the target as it was
C4_BackupRestore ==
    \A p \in Procs :
        (Done(p, "write") /\ args[p].backup /\ Pre(p) # None /\ serr[p] /\ faults[p] = {})
          => (~R(p).success /\ Cur(p) = Pre(p))

C4_Witness ==
    \E p \in Procs :
        /\ Done(p, "write") /\ args[p].backup /\ ~args[p].atomic
        /\ Pre(p) # None /\ serr[p] /\ faults[p] = {}
        /\ Cur(p) = Pre(p)

\* C5 (as claimed): with backup=True a failed write leaves the target neither
\* partially written nor missing: it holds what it held before the call, or the
\* complete new document
C5_FailedWriteLeavesTargetIntact ==
    \A p \in Procs :
        (Done(p, "write") /\ args[p].backup /\ ~R(p).success)
          => Cur(p) \in {Pre(p)} \cup NewComplete(p)

\* C6: no exception reaches the caller; a call that ended returned a result, with
\* an error message exactly when it failed
C6_Total ==
    \A p \in Procs :
        /\ pc[p] # "raised"
        /\ pc[p] = "done"
             => /\ result[p] # None
                /\ R(p).success <=> R(p).error_message = NoMsg
                /\ ~R(p).success => R(p).data = None

C6_Witness ==
    \E p \in Procs :
        /\ Done(p, "write") /\ "restore_copy" \in faults[p]
        /\ ~R(p).success /\ R(p).error_message = Msg("Error writing JSON", "OSError")

\* C7 (as claimed): a call given a schema validates the data against that schema
\* and not the store's: data violating it is rejected with the schema-violation
\* error, data satisfying it is not
ParsedTarget(p) == json_load(files[resolve(args[p].path)])
ReadsDocument(p) ==
    /\ Done(p, "read") /\ is_file(args[p].path)
    /\ Len(files[resolve(args[p].path)]) <= max_size_bytes
    /\ ParsedTarget(p).ok
SchemaError(p) == ~R(p).success /\ R(p).error_message = Msg("Schema validation error", "ValidationError")

C7_SchemaOverride ==
    \A p \in Procs :
        (pc[p] = "done" /\ args[p].schema # None /\ InBase(args[p].path) /\ "resolve" \notin faults[p])
          => /\ Done(p, "write")
                  => (SchemaError(p) <=> ~validate(args[p].data, The(args[p].schema)))
             /\ (ReadsDocument(p) /\ faults[p] = {})
                  => (SchemaError(p) <=> ~validate(ParsedTarget(p).data, The(args[p].schema)))

\* C8 (as claimed): at every step of a write with atomic=True, and after it, the
\* target holds what it held before the call or the complete new document
C8_AtomicTarget ==
    \A p \in Procs :
        (args[p].op = "write" /\ args[p].atomic)
          => Cur(p) \in {Pre(p)} \cup NewComplete(p)

\* C9: when no call is in progress, the only temporary files on disk are those
\* whose deletion failed; a successful atomic write leaves the serialized data in
\* the target
C9_TempCleanup ==
    /\ (\A p \in Procs : pc[p] \in {"idle", "done"}) => TempFiles \subseteq leaked
    /\ \A p \in Procs :
          (Done(p, "write") /\ args[p].atomic /\ R(p).success)
            => Cur(p) = Some(json_dump(args[p].data).out)

C9_Witness ==
    \E p \in Procs :
        /\ Done(p, "write") /\ args[p].atomic /\ serr[p] /\ ncalls = 2
        /\ TempFiles = {}

\* C10 (as claimed): two interleaved atomic writes to one path use distinct
\* temporary files, and once both returned the target holds the data of the
\* writer that renamed last
LastRenamer == CHOOSE p \in Procs : \A q \in Procs : rn[q] <= rn[p]

C10_LastRenameWins ==
    /\ \A p, q \in Procs :
          (p # q /\ temp_path[p] # None /\ temp_path[q] # None) => temp_path[p] # temp_path[q]
    /\ ((\A p \in Procs : Done(p, "write")) /\ rn[LastRenamer] > 0)
          => Cur(LastRenamer) = Some(json_dump(args[LastRenamer].data).out)
====
